---- MODULE Spec2Model ----
(***************************************************************************)
(* Model of src/main.py: the review harvester (collect_all_feedbacks,     *)
(* handle_page), its asyncio orchestration (main) over one shared Chrome   *)
(* session, and the Telegram delivery loop (sent_data, stop_bot).          *)
(*                                                                         *)
(* The web site and the Telegram API are the environment: what a page      *)
(* renders, what a click reveals and what a send answers are chosen        *)
(* nondeterministically, at the moment the code observes them.             *)
(***************************************************************************)
EXTENDS Integers, Sequences, FiniteSets, TLC

\* ------------------------------------------------------------------ bounds
\* Number of catalog codes in SKU_LIST.
NumSku == 2
\* Number of review items the site renders during one run, all pages together.
MaxItems == 3

\* --------------------------------------------------------- program constants
\* TIME_DELTA: age cutoff in days (main.py:39).
TIME_DELTA == 10
\* The reading of datetime.now() (main.py:65), in days; one run is short
\* against the day-sized cutoff, so the clock is read as one instant.
Now == 20
\* The session pool: the one driver made by async_chrome_driver (main.py:181).
PoolSize == 1

SKU_LIST == [n \in 1..NumSku |-> n]
Tasks == 1..Len(SKU_LIST)

\* Python's None for an optional local; a present value v is <<v>>.
None == <<>>
Some(v) == <<v>>

\* ------------------------------------------------------------ the web site
\* Publication dates at the cutoff: one day older than now - TIME_DELTA, and
\* exactly now - TIME_DELTA, the oldest date that is not older. The code reads
\* a date only to compare it with the cutoff (IsOld), so a newer date behaves
\* as the second one.
Dates == {Now - TIME_DELTA - 1, Now - TIME_DELTA}
\* The 'class' attribute of a feedback__rating element, as characters; its
\* last character is the star count.
ClassAttr(d) == <<"s", "t", "a", "r", d>>
ClassAttrs == {ClassAttr("4"), ClassAttr("5")}
\* The rating element's class of an item that has not been asked for it yet.
Unread == <<"?">>
\* A rendered comments__item. What the site serves for it is fixed when the
\* code first reads it: date is None until the scan reads feedback__date,
\* cls is Unread until handle_page looks for feedback__rating, and then the
\* element's class or None when the item has no such element.
Blank == [date |-> None, cls |-> Unread]
Items == [date : {None} \cup {Some(d) : d \in Dates},
          cls : {Unread, None} \cup ClassAttrs]
\* The items a page can add to the DOM when at most room more may render.
Reveals(room) == {[m \in 1..n |-> Blank] : n \in 0..room}
\* Text of the aggregate rating element.
RatingTexts == {"4.8", "5.0", "n/a"}
\* Sub-elements of a review that the site's review template may leave out.
OptionalParts == {"feedback__header", "feedback__text"}

VARIABLES
    phase,              \* "gather" | "crashed" | "sending" | "exited"
    pc,                 \* pc[i]: where handle_page task i stands
    driver,             \* the shared session: alive, loaded url, rendered items,
                        \* calls of driver.quit() so far (history)
    absent,             \* the optional parts the site's template leaves out
    rendered,           \* items rendered so far in the run (bounded by MaxItems)
    rating,             \* rating[i]: handle_page's local rating (tenths), -1 unset
    product_name,       \* product_name[i]
    feedbacks_list,     \* feedbacks_list[i]: retained elements (DOM positions)
    new_feedbacks_list, \* new_feedbacks_list[i]: the batch being scanned
    feedback_border,    \* feedback_border[i]: the border of the last scan, kept
                        \* until handle_page returns (history)
    k,                  \* k[i]: position of the for loop of handle_page
    events,             \* events[i]: what has happened in task i (history)
    DATA,               \* the shared result list
    idx,                \* position of the for loop of sent_data
    attempts,           \* indexes of DATA passed to bot.send_message (history)
    last,               \* answer to the last send
    errSeen             \* a send has failed with a non-429 error (history)

vars == <<phase, pc, driver, absent, rendered, rating, product_name,
          feedbacks_list, new_feedbacks_list, feedback_border, k, events, DATA,
          idx, attempts, last, errSeen>>

harvestLocals == <<rating, product_name, feedbacks_list, new_feedbacks_list,
                   feedback_border, k>>
sendVars == <<idx, attempts, last, errSeen>>

\* ------------------------------------------------------------------- helpers
\* f"{x}" of an optional local: None prints as the text None.
Str(opt) == IF opt = None THEN "None" ELSE opt[1]

\* float(text), in tenths; defined on the numeric texts only.
IsNumeric(t) == t \in {"4.8", "5.0"}
Float(t) == IF t = "4.8" THEN 48 ELSE 50
\* f"{rating}" of a float.
FormatFloat(r) == IF r = 48 THEN "4.8" ELSE "5.0"
\* The float 5 that handle_page compares the rating with (main.py:108).
MaxRating == 50

\* The product's display name found on page sku.
NameOnPage(sku) == <<"product", sku>>

\* Task i has ended: what asyncio.gather waits for, for every task.
FinishedOnceStarted(i) == pc[i] # "ready"
Finished(i) == pc[i] \in {"done", "raised"}
\* Task i is inside handle_page: it holds the session.
Active(i) == pc[i] \notin {"ready", "done", "raised"}

\* The event loop's choice of the task to run: tasks are started in the order
\* main created them, and since handle_page never awaits, a started task
\* runs to its end before the loop takes the next one.
CanRunInterleaved(i) ==
    \A j \in Tasks : j < i => pc[j] # "ready"
CanRun(i) ==
    /\ \A j \in Tasks : j < i => pc[j] # "ready"
    /\ \A j \in Tasks : ~Active(j)

\* The task ends (returns or raises): its locals are gone.
LeaveWith(i, how, ev) ==
    /\ pc' = [pc EXCEPT ![i] = how]
    /\ events' = [events EXCEPT ![i] = @ \cup ev]
    /\ product_name' = [product_name EXCEPT ![i] = None]
    /\ feedbacks_list' = [feedbacks_list EXCEPT ![i] = <<>>]
    /\ new_feedbacks_list' = [new_feedbacks_list EXCEPT ![i] = <<>>]
    /\ feedback_border' = [feedback_border EXCEPT ![i] = None]
    /\ k' = [k EXCEPT ![i] = 0]

\* ------------------------------------------------- collect_all_feedbacks
\* feedback_date < datetime.now() - timedelta(days=time)
IsOld(date, time) == date < Now - time

\* The for loop over the batch: the 0-based index of the first old item,
\* None when the loop runs to its end.
FeedbackBorder(dom, batch, time) ==
    LET old == {n \in 1..Len(batch) : IsOld(dom[batch[n]].date[1], time)}
    IN  IF old = {} THEN None
        ELSE Some((CHOOSE n \in old : \A m \in old : n <= m) - 1)

\* The DOM with the dates ds served for the items of batch.
Dated(dom, batch, ds) ==
    [p \in DOMAIN dom |->
       IF \E n \in 1..Len(batch) : batch[n] = p
       THEN [dom[p] EXCEPT !.date =
               Some(ds[CHOOSE n \in 1..Len(batch) : batch[n] = p])]
       ELSE dom[p]]

\* The DOM after the scan: the break leaves the items behind the border unread.
Observed(dom, dated, batch, border) ==
    [p \in DOMAIN dom |->
       IF border # None /\ \E n \in 1..Len(batch) : batch[n] = p /\ n > border[1] + 1
       THEN dom[p] ELSE dated[p]]

\* Python truth of feedback_border: None and 0 are false.
Truthy(border) == border # None /\ border[1] # 0

\* feedbacks_list after the if/elif/else on feedback_border.
RetainedKeepBorder(fl, batch, border) ==
    IF Truthy(border) THEN fl \o SubSeq(batch, 1, border[1] + 1)
    ELSE IF border = Some(0) THEN fl
    ELSE fl \o batch
RetainedDropBatch(fl, batch, border) ==
    IF Truthy(border) THEN fl \o SubSeq(batch, 1, border[1])
    ELSE fl
RetainedWholeBatch(fl, batch, border) == fl \o batch
RetainedZeroAsNone(fl, batch, border) ==
    IF Truthy(border) THEN fl \o SubSeq(batch, 1, border[1])
    ELSE fl \o batch
Retained(fl, batch, border) ==
    IF Truthy(border) THEN fl \o SubSeq(batch, 1, border[1])
    ELSE IF border = Some(0) THEN fl
    ELSE fl \o batch

\* The except ElementNotInteractableException branch.
NotInteractableRestart(fl, batch) == batch
NotInteractable(fl, batch) == fl \o batch

\* driver.find_elements(...)[len(feedbacks_list):], as DOM positions.
Requery(n, fl) ==
    IF Len(fl) >= n THEN <<>> ELSE [m \in 1..(n - Len(fl)) |-> Len(fl) + m]

\* ------------------------------------------------------------ handle_page
\* feedback.find_element(feedback__rating).get_attribute('class')[-1], or
\* None when the element is missing.
FeedbackStars(item) ==
    IF item.cls = None THEN None ELSE Some(item.cls[Len(item.cls)])

\* if feedback_stars == '5': continue
SkipsNone(stars) == FALSE
Skips(stars) == stars = Some("5")

FeedbackName == IF "feedback__header" \in absent THEN None ELSE Some("header")
FeedbackTextNeedsHeader ==
    IF absent # {} THEN None ELSE Some("text")
FeedbackText == IF "feedback__text" \in absent THEN None ELSE Some("text")

\* The f-string of the record, field by field.
FeedbackDataItem(name, pname, sku, stars, text, r) ==
    <<Str(name), pname, sku, Str(stars), Str(text), FormatFloat(r)>>

\* if rating < 5
WorthHarvestingLeq(r) == r <= MaxRating
WorthHarvesting(r) == r < MaxRating

\* driver_var.get(url)
Get(i) ==
    /\ phase = "gather"
    /\ pc[i] = "ready"
    /\ CanRun(i)
    /\ \/ /\ driver' = [driver EXCEPT !.url = SKU_LIST[i], !.dom = <<>>]
          /\ pc' = [pc EXCEPT ![i] = "wait"]
          /\ UNCHANGED events
       \/ /\ pc' = [pc EXCEPT ![i] = "raised"]
          /\ events' = [events EXCEPT ![i] = @ \cup {"WebDriverException"}]
          /\ UNCHANGED driver
    /\ UNCHANGED <<absent, rendered, harvestLocals, DATA, phase, sendVars>>

\* What the wait for the rating indicator ends with.
OnTimeoutRaise(i) ==
    /\ LeaveWith(i, "raised", {"timeout"})
    /\ UNCHANGED rating
OnTimeout(i) ==
    /\ LeaveWith(i, "done", {"timeout"})
    /\ UNCHANGED rating

\* WebDriverWait(...).until(...); rating = float(...text); if rating < 5
WaitRating(i) ==
    /\ pc[i] = "wait"
    /\ \/ OnTimeout(i)
       \/ \E t \in RatingTexts :
            IF ~IsNumeric(t)
            THEN /\ LeaveWith(i, "raised", {"ValueError"})
                 /\ UNCHANGED rating
            ELSE /\ rating' = [rating EXCEPT ![i] = Some(Float(t))]
                 /\ IF WorthHarvesting(Float(t))
                    THEN /\ pc' = [pc EXCEPT ![i] = "name"]
                         /\ UNCHANGED <<events, product_name, feedbacks_list,
                                        new_feedbacks_list, feedback_border, k>>
                    ELSE LeaveWith(i, "done", {})
    /\ UNCHANGED <<phase, driver, absent, rendered, DATA, sendVars>>

\* product_name = ...text; then collect_all_feedbacks is entered:
\* feedbacks_list = []; new_feedbacks_list = driver_var.find_elements(...)
EnterCollect(i) ==
    /\ pc[i] = "name"
    /\ \/ /\ LeaveWith(i, "raised", {"NoSuchElementException"})
          /\ UNCHANGED <<driver, rendered>>
       \/ \E first \in Reveals(MaxItems - rendered) :
            /\ driver' = [driver EXCEPT !.dom = first]
            /\ rendered' = rendered + Len(first)
            /\ product_name' = [product_name EXCEPT ![i] = Some(NameOnPage(driver.url))]
            /\ feedbacks_list' = [feedbacks_list EXCEPT ![i] = <<>>]
            /\ new_feedbacks_list' =
                 [new_feedbacks_list EXCEPT ![i] = [m \in 1..Len(first) |-> m]]
            /\ events' = [events EXCEPT ![i] = @ \cup {"collect"}]
            /\ pc' = [pc EXCEPT ![i] = "loop"]
            /\ UNCHANGED <<k, feedback_border>>
    /\ UNCHANGED <<phase, absent, rating, DATA, sendVars>>

\* One pass of the while loop up to the click: scan the batch, then
\* the if/elif/else on feedback_border; an empty batch ends the loop.
Scan(i) ==
    /\ pc[i] = "loop"
    /\ LET fl == feedbacks_list[i]
           batch == new_feedbacks_list[i]
       IN  IF batch = <<>>
           THEN /\ pc' = [pc EXCEPT ![i] = "extract"]
                /\ k' = [k EXCEPT ![i] = 1]
                /\ UNCHANGED <<events, product_name, feedbacks_list,
                               new_feedbacks_list, feedback_border, driver>>
           ELSE IF \E n \in 1..Len(batch) : batch[n] \notin DOMAIN driver.dom
           THEN /\ LeaveWith(i, "raised", {"StaleElementReferenceException"})
                /\ UNCHANGED driver
           ELSE \/ /\ LeaveWith(i, "raised", {"NoSuchElementException"})
                   /\ UNCHANGED driver
                \/ \E ds \in [1..Len(batch) -> Dates] :
                   LET dated == Dated(driver.dom, batch, ds)
                       border == FeedbackBorder(dated, batch, TIME_DELTA)
                   IN  /\ driver' = [driver EXCEPT !.dom =
                                       Observed(driver.dom, dated, batch, border)]
                       /\ feedbacks_list' =
                            [feedbacks_list EXCEPT ![i] = Retained(fl, batch, border)]
                       /\ feedback_border' = [feedback_border EXCEPT ![i] = border]
                       /\ IF border # None
                          THEN /\ pc' = [pc EXCEPT ![i] = "extract"]
                               /\ k' = [k EXCEPT ![i] = 1]
                               /\ UNCHANGED events
                               /\ new_feedbacks_list' = [new_feedbacks_list EXCEPT ![i] = <<>>]
                          ELSE /\ pc' = [pc EXCEPT ![i] = "click"]
                               /\ UNCHANGED <<k, events, new_feedbacks_list>>
                       /\ UNCHANGED product_name
    /\ UNCHANGED <<phase, absent, rendered, rating, DATA, sendVars>>

\* new_feedbacks_list[-1].click(); sleep(1); then the re-query, or the
\* except branch.
Click(i) ==
    /\ pc[i] = "click"
    /\ LET fl == feedbacks_list[i]
           batch == new_feedbacks_list[i]
       IN  \/ \E more \in Reveals(MaxItems - rendered) :
                /\ driver' = [driver EXCEPT !.dom = @ \o more]
                /\ rendered' = rendered + Len(more)
                /\ new_feedbacks_list' =
                     [new_feedbacks_list EXCEPT ![i] = Requery(Len(driver.dom) + Len(more), fl)]
                /\ pc' = [pc EXCEPT ![i] = "loop"]
                /\ UNCHANGED <<events, product_name, feedbacks_list, feedback_border, k>>
           \/ /\ feedbacks_list' = [feedbacks_list EXCEPT ![i] = NotInteractable(fl, batch)]
              /\ pc' = [pc EXCEPT ![i] = "extract"]
              /\ k' = [k EXCEPT ![i] = 1]
              /\ new_feedbacks_list' = [new_feedbacks_list EXCEPT ![i] = <<>>]
              /\ UNCHANGED <<driver, rendered, product_name, feedback_border, events>>
           \/ /\ LeaveWith(i, "raised", {"ElementClickInterceptedException"})
              /\ UNCHANGED <<driver, rendered>>
    /\ UNCHANGED <<phase, absent, rating, DATA, sendVars>>

\* One pass of the for loop over all_feedbacks.
Extract(i) ==
    /\ pc[i] = "extract"
    /\ k[i] <= Len(feedbacks_list[i])
    /\ feedbacks_list[i][k[i]] \in DOMAIN driver.dom
    /\ LET p == feedbacks_list[i][k[i]]
       IN  \E c \in ClassAttrs \cup {None} :
             /\ driver.dom[p].cls \in {Unread, c}
             /\ LET feedback == [driver.dom[p] EXCEPT !.cls = c]
                    feedback_stars == FeedbackStars(feedback)
                IN  /\ driver' = [driver EXCEPT !.dom[p] = feedback]
                    /\ IF Skips(feedback_stars)
                       THEN UNCHANGED DATA
                       ELSE DATA' = Append(DATA,
                                FeedbackDataItem(FeedbackName, product_name[i][1],
                                                 SKU_LIST[i], feedback_stars,
                                                 FeedbackText, rating[i][1]))
    /\ k' = [k EXCEPT ![i] = @ + 1]
    /\ UNCHANGED <<phase, pc, absent, rendered, rating, product_name,
                   feedbacks_list, new_feedbacks_list, feedback_border, events,
                   sendVars>>

\* The for loop is exhausted: handle_page returns.
Return(i) ==
    /\ pc[i] = "extract"
    /\ k[i] > Len(feedbacks_list[i])
    /\ LeaveWith(i, "done", {})
    /\ UNCHANGED <<phase, driver, absent, rendered, rating, DATA, sendVars>>

\* ------------------------------------------------------------------- main
\* The session after the body of the async with has been left, by a return
\* of gather or by an exception of a task (raised): the finally clause of
\* async_chrome_driver calls driver.quit() either way.
DriverQuitOnReturn(d, raised) ==
    IF raised THEN d
    ELSE [alive |-> FALSE, url |-> 0, dom |-> <<>>, quits |-> d.quits + 1]
DriverQuit(d, raised) ==
    [alive |-> FALSE, url |-> 0, dom |-> <<>>, quits |-> d.quits + 1]

\* await asyncio.gather(*tasks) returns or raises once the tasks have ended;
\* leaving the async with block quits the driver. An exception of a task
\* leaves asyncio.run(main()) and the module is never run past it.
Barrier ==
    /\ phase = "gather"
    /\ \A i \in Tasks : Finished(i)
    /\ driver' = DriverQuit(driver, \E i \in Tasks : pc[i] = "raised")
    /\ phase' = IF \E i \in Tasks : pc[i] = "raised" THEN "crashed" ELSE "sending"
    /\ UNCHANGED <<pc, absent, rendered, harvestLocals, events, DATA, sendVars>>

\* --------------------------------------------------------------- sent_data
Answers == {"ok", "429", "error"}

\* Where the for loop of sent_data goes after the answer to a send.
AfterSendStopOnError(n, ans) == IF ans = "error" THEN Len(DATA) + 1 ELSE n + 1
AfterSend(n, ans) == n + 1

\* bot.send_message(CHANNEL_ID, message) and the except branch.
Send ==
    /\ phase = "sending"
    /\ idx <= Len(DATA)
    /\ \E ans \in Answers :
         /\ attempts' = Append(attempts, idx)
         /\ last' = ans
         /\ errSeen' = (errSeen \/ ans = "error")
         /\ idx' = AfterSend(idx, ans)
    /\ UNCHANGED <<phase, pc, driver, absent, rendered, harvestLocals, events, DATA>>

\* Where the module goes after the call of stop_bot() at the end of sent_data:
\* sys.exit() raises SystemExit through sent_data and the module level, so the
\* statement after sent_data(), bot.polling(), is not reached.
AfterStopBotReturns == "polling"
AfterStopBot == "exited"

\* stop_bot(): bot.stop_polling(); sys.exit()
StopBot ==
    /\ phase = "sending"
    /\ idx > Len(DATA)
    /\ phase' = AfterStopBot
    /\ UNCHANGED <<pc, driver, absent, rendered, harvestLocals, events, DATA, sendVars>>

\* ---------------------------------------------------------- specification
Init ==
    /\ phase = "gather"
    /\ pc = [i \in Tasks |-> "ready"]
    /\ driver = [alive |-> TRUE, url |-> 0, dom |-> <<>>, quits |-> 0]
    /\ absent = {}   \* the template renders both optional parts in these runs
    /\ rendered = 0
    /\ rating = [i \in Tasks |-> None]
    /\ product_name = [i \in Tasks |-> None]
    /\ feedbacks_list = [i \in Tasks |-> <<>>]
    /\ new_feedbacks_list = [i \in Tasks |-> <<>>]
    /\ feedback_border = [i \in Tasks |-> None]
    /\ k = [i \in Tasks |-> 0]
    /\ events = [i \in Tasks |-> {}]
    /\ DATA = <<>>
    /\ idx = 1
    /\ attempts = <<>>
    /\ last = "none"
    /\ errSeen = FALSE

Next ==
    \/ \E i \in Tasks : Get(i)
    \/ \E i \in Tasks : WaitRating(i)
    \/ \E i \in Tasks : EnterCollect(i)
    \/ \E i \in Tasks : Scan(i)
    \/ \E i \in Tasks : Click(i)
    \/ \E i \in Tasks : Extract(i)
    \/ \E i \in Tasks : Return(i)
    \/ Barrier
    \/ Send
    \/ StopBot

Spec == Init /\ [][Next]_vars

\* The run up to the return of collect_all_feedbacks: the steps that lead
\* a task into the paginator and the paginator's own. The interpreter
\* keeps running the task it is in, which is the fairness stated.
CollectNext ==
    \/ \E i \in Tasks : Get(i)
    \/ \E i \in Tasks : WaitRating(i)
    \/ \E i \in Tasks : EnterCollect(i)
    \/ \E i \in Tasks : Scan(i)
    \/ \E i \in Tasks : Click(i)

CollectSpec == Init /\ [][CollectNext]_vars /\ WF_vars(CollectNext)

\* The harvest over every review template: the site may leave out the
\* header, the text, both or neither of each review (the rating element is
\* left out review by review, in Extract). The run is followed up to the
\* barrier; the delivery does not look into the records.
FieldsInit ==
    /\ phase = "gather"
    /\ pc = [i \in Tasks |-> "ready"]
    /\ driver = [alive |-> TRUE, url |-> 0, dom |-> <<>>, quits |-> 0]
    /\ absent \in SUBSET OptionalParts
    /\ rendered = 0
    /\ rating = [i \in Tasks |-> None]
    /\ product_name = [i \in Tasks |-> None]
    /\ feedbacks_list = [i \in Tasks |-> <<>>]
    /\ new_feedbacks_list = [i \in Tasks |-> <<>>]
    /\ feedback_border = [i \in Tasks |-> None]
    /\ k = [i \in Tasks |-> 0]
    /\ events = [i \in Tasks |-> {}]
    /\ DATA = <<>>
    /\ idx = 1
    /\ attempts = <<>>
    /\ last = "none"
    /\ errSeen = FALSE

FieldsNext ==
    \/ \E i \in Tasks : Get(i)
    \/ \E i \in Tasks : WaitRating(i)
    \/ \E i \in Tasks : EnterCollect(i)
    \/ \E i \in Tasks : Scan(i)
    \/ \E i \in Tasks : Click(i)
    \/ \E i \in Tasks : Extract(i)
    \/ \E i \in Tasks : Return(i)

FieldsSpec == FieldsInit /\ [][FieldsNext]_vars

\* ------------------------------------------------------------------ claims
\* The records of DATA that carry catalog code sku.
RecordsOf(sku) == {n \in 1..Len(DATA) : DATA[n][3] = sku}
\* The cutoff: dates below it are older than now - TIME_DELTA.
Cutoff == Now - TIME_DELTA
InCollect(i) == pc[i] \in {"loop", "click"}

C2_EachItemOnce ==
    \A i \in Tasks :
        pc[i] = "extract" =>
            \A a, b \in 1..Len(feedbacks_list[i]) :
                a # b => feedbacks_list[i][a] # feedbacks_list[i][b]

\* C3: a click that raises ElementNotInteractableException ends the paginator
\* with exactly the items retained so far, which is what a click that reveals
\* nothing returns: the step from the click to the return leaves feedbacks_list
\* as it was.
C3_NotInteractableIsExhausted ==
    [][\A i \in Tasks :
          (pc[i] = "click" /\ pc'[i] = "extract")
              => feedbacks_list'[i] = feedbacks_list[i]]_vars

\* C4: a send answered with 429 is followed by a send of the same message: the
\* dispatcher retries it before it goes on or shuts down.
C4_RateLimitedIsRetried ==
    [][(phase = "sending" /\ last = "429")
          => attempts' = Append(attempts, attempts[Len(attempts)])]_vars

\* C5: a non-429 delivery error does not stop the loop of sent_data: when the
\* dispatcher shuts down, every record of DATA has been attempted, once and in
\* order; and until then the records attempted are the first ones, in order.
C5_ErrorDoesNotStopLoop ==
    /\ attempts = [n \in 1..Len(attempts) |-> n]
    /\ phase = "exited" => Len(attempts) = Len(DATA)

\* C5 witness: a send failed with a non-429 error, a later record was
\* attempted after it, and the dispatcher has shut down.
C5_Witness ==
    /\ phase = "exited"
    /\ errSeen
    /\ last # "error"
    /\ Len(attempts) >= 2

\* C6: at most PoolSize handle_page tasks are inside handle_page at any
\* instant, and the page the shared driver has loaded is the one of the task
\* that is inside: no other task has navigated it away.
C6_OneTaskOnDriver ==
    /\ Cardinality({i \in Tasks : Active(i)}) <= PoolSize
    /\ \A i \in Tasks : Active(i) => (driver.alive /\ driver.url = SKU_LIST[i])

\* C6 witness: a task is paginating on the driver while another task, created
\* before the first one started, is still waiting for the event loop.
C6_Witness ==
    \E i, j \in Tasks : pc[i] = "click" /\ pc[j] = "ready"

\* C7: collect_all_feedbacks terminates: a task inside the while loop leaves
\* it (the site renders finitely many items, so the control is exhausted in
\* the end). Checked under CollectSpec.
C7_CollectTerminates ==
    \A i \in Tasks : InCollect(i) ~> ~InCollect(i)

\* C7 witness: the loop has gone round: a click revealed further items and
\* the new batch is about to be scanned, with the first batch retained.
C7_Witness ==
    \E i \in Tasks :
        /\ pc[i] = "loop"
        /\ feedbacks_list[i] # <<>>
        /\ new_feedbacks_list[i] # <<>>

\* C8: a product whose aggregate rating is 5 gets no record in DATA and the
\* paginator is never entered for it.
C8_PerfectScoreShortCircuit ==
    \A i \in Tasks :
        rating[i] = Some(MaxRating) =>
            /\ RecordsOf(SKU_LIST[i]) = {}
            /\ "collect" \notin events[i]
            /\ pc[i] = "done"

\* C8 witness: a product rated 5 has been handled while another product's
\* reviews were harvested into DATA.
C8_Witness ==
    \E i, j \in Tasks :
        /\ rating[i] = Some(MaxRating)
        /\ pc[i] = "done"
        /\ RecordsOf(SKU_LIST[j]) # {}

\* The star count a record's star field stands for.
StarValue(s) == IF s = "5" THEN 5 ELSE 4

\* C9: every record of DATA whose star field is present has fewer than 5 stars,
\* and handle_page has appended one record for each review it has passed whose
\* rating is not 5, and none for the others.
C9_FiveStarReviewsFiltered ==
    /\ \A n \in 1..Len(DATA) : DATA[n][4] # "None" => StarValue(DATA[n][4]) < 5
    /\ \A i \in Tasks :
         pc[i] = "extract" =>
            Cardinality(RecordsOf(SKU_LIST[i])) =
              Cardinality({n \in 1..(k[i] - 1) :
                 driver.dom[feedbacks_list[i][n]].cls # ClassAttr("5")})

\* C9 witness: the for loop has passed a 5-star review, a review with fewer
\* stars and a review without a rating element.
C9_Witness ==
    \E i \in Tasks :
        /\ pc[i] = "extract"
        /\ k[i] > Len(feedbacks_list[i])
        /\ \E n \in 1..Len(feedbacks_list[i]) :
             driver.dom[feedbacks_list[i][n]].cls = ClassAttr("5")
        /\ \E n \in RecordsOf(SKU_LIST[i]) : DATA[n][4] = "4"
        /\ \E n \in RecordsOf(SKU_LIST[i]) : DATA[n][4] = "None"

\* C10: a product whose rating indicator times out ends its task normally
\* with no record and without entering the paginator; the run goes on: the
\* process is lost only when some task raised, which a timeout never does.
C10_TimeoutIsLocal ==
    /\ \A i \in Tasks :
         "timeout" \in events[i] =>
            /\ pc[i] = "done"
            /\ RecordsOf(SKU_LIST[i]) = {}
            /\ "collect" \notin events[i]
    /\ phase = "crashed" =>
         \E j \in Tasks : pc[j] = "raised" /\ "timeout" \notin events[j]
    /\ phase \in {"sending", "exited"} => \A i \in Tasks : pc[i] = "done"

\* C10 witness: the first product timed out, a later product's reviews are in
\* DATA and delivery has run over them.
C10_Witness ==
    \E i, j \in Tasks :
        /\ i < j
        /\ "timeout" \in events[i]
        /\ RecordsOf(SKU_LIST[j]) # {}
        /\ phase = "exited"
        /\ Len(attempts) = Len(DATA)

\* C11: no failure of a collaborator call inside harvesting (a missing product
\* name or review date element, a rating text that is not a number, a click
\* failing other than not-interactable, a navigation error) ends the process
\* abnormally: the run never ends in the crashed phase, it goes on to delivery.
C11_NoHarvestFailureCrashes ==
    phase # "crashed"

\* C12: delivery runs strictly after the harvest barrier: once a message has
\* been passed to bot.send_message every handle_page task has ended and the
\* driver is released, and from then on DATA no longer changes.
C12_DeliveryAfterBarrier ==
    /\ [](attempts # <<>> =>
            /\ \A i \in Tasks : pc[i] \in {"done", "raised"}
            /\ ~driver.alive)
    /\ [][(attempts # <<>> \/ attempts' # <<>>) => DATA' = DATA]_vars

\* C12 witness: records of two harvests are in DATA and the first of them
\* has been sent.
C12_Witness ==
    /\ phase = "sending"
    /\ Len(attempts) = 1
    /\ \E i, j \in Tasks : i # j /\ RecordsOf(SKU_LIST[i]) # {} /\ RecordsOf(SKU_LIST[j]) # {}

\* The 1-based place in batch of the first item whose date, as read into dom,
\* is older than the cutoff; 0 when no item of batch has been read as old.
FirstOldIn(dom, batch) ==
    LET old == {n \in 1..Len(batch) :
                  /\ batch[n] \in DOMAIN dom
                  /\ dom[batch[n]].date # None
                  /\ dom[batch[n]].date[1] < Cutoff}
    IN  IF old = {} THEN 0 ELSE CHOOSE n \in old : \A m \in old : n <= m

C13_WitnessFirstBatch ==
    \E i \in Tasks :
        /\ pc[i] = "extract"
        /\ feedback_border[i] = Some(0)
        /\ feedbacks_list[i] = <<>>

\* C14: once every record of DATA has been attempted, whatever the answers to
\* the sends were, the only step left to sent_data is stop_bot, it can always
\* be taken, and it ends the process; no run exits before every record has
\* been attempted exactly once, and bot.polling() is never started.
C14_ShutdownAfterAllAttempted ==
    /\ [](/\ phase # "polling"
          /\ (phase = "sending" /\ Len(attempts) = Len(DATA)) => ENABLED StopBot
          /\ phase = "exited" => Len(attempts) = Len(DATA))
    /\ [][(phase = "sending" /\ Len(attempts) = Len(DATA)) => phase' = "exited"]_vars

\* C14 witness: the process has exited after a run of sends in which one was
\* refused with an error and the last one was rate-limited.
C14_Witness ==
    /\ phase = "exited"
    /\ Len(DATA) >= 2
    /\ Len(attempts) = Len(DATA)
    /\ errSeen
    /\ last = "429"

IsPrefix(s, t) == Len(s) <= Len(t) /\ SubSeq(t, 1, Len(s)) = s

\* C16: while a task is in the loop of collect_all_feedbacks and does not
\* raise, every step leaves the retained sequence an extension of what it was
\* (never shorter, never reordered), and an iteration that goes on to the
\* expansion click has strictly more retained items than the one before; the
\* only other ways out of the scan are the end of the loop or an exception.
C16_RetainedGrowsOrLoopEnds ==
    [][\A i \in Tasks :
          /\ (InCollect(i) /\ pc'[i] # "raised")
             => IsPrefix(feedbacks_list[i], feedbacks_list'[i])
          /\ (pc[i] = "loop" /\ pc'[i] # "loop")
             => \/ pc'[i] \in {"extract", "raised"}
                \/ /\ pc'[i] = "click"
                   /\ Len(feedbacks_list'[i]) > Len(feedbacks_list[i])
          /\ (pc[i] = "click" /\ pc'[i] = "loop")
             => feedbacks_list'[i] = feedbacks_list[i]]_vars

\* C16 witness: a second iteration has added its batch behind the items
\* retained by the first one and goes on to the click.
C16_Witness ==
    \E i \in Tasks :
        /\ pc[i] = "click"
        /\ new_feedbacks_list[i] # <<>>
        /\ Len(feedbacks_list[i]) > Len(new_feedbacks_list[i])

\* An optional field of a record: its value, or the text blank when absent.
ShownAs(opt, blank) == IF opt = None THEN blank ELSE opt[1]
\* The j-th smallest member of a set of numbers.
NthOf(S, j) == CHOOSE x \in S : Cardinality({y \in S : y < x}) = j - 1
\* The reviews handle_page task i has passed in its for loop and not skipped
\* as 5-star ones, as positions of all_feedbacks.
KeptBy(i) ==
    {n \in 1..(k[i] - 1) :
        ~Skips(FeedbackStars(driver.dom[feedbacks_list[i][n]]))}
\* What a review of the current template has for an optional part.
PartOfReview(part, value) == IF part \in absent THEN None ELSE Some(value)
\* While task i is in its for loop: every review it has passed and not
\* skipped has exactly one record, in order, whose star, header and text
\* fields are what the review has, each on its own, with the text blank for
\* a part the review does not have.
OneRecordEach(i, blank) ==
    LET recs == RecordsOf(SKU_LIST[i])
        kept == KeptBy(i)
    IN  /\ Cardinality(recs) = Cardinality(kept)
        /\ \A j \in 1..Cardinality(kept) :
             LET rec == DATA[NthOf(recs, j)]
                 item == driver.dom[feedbacks_list[i][NthOf(kept, j)]]
             IN  /\ rec[1] = ShownAs(PartOfReview("feedback__header", "header"), blank)
                 /\ rec[4] = ShownAs(FeedbackStars(item), blank)
                 /\ rec[5] = ShownAs(PartOfReview("feedback__text", "text"), blank)

C18_CatalogThenDisplayOrder ==
    /\ \A a, b \in 1..Len(DATA) : a < b => DATA[a][3] <= DATA[b][3]
    /\ \A i \in Tasks : Active(i) => \A j \in Tasks : j < i => Finished(j)
    /\ \A i \in Tasks :
          pc[i] = "extract" =>
             \A a, b \in 1..Len(feedbacks_list[i]) :
                 a < b => feedbacks_list[i][a] < feedbacks_list[i][b]
    /\ \A n \in 1..Len(attempts) : attempts[n] = n

\* C19: while main is inside the async with block the session is live and
\* driver.quit() has not been called; once main has been left, by the return
\* of gather or by the exception of a task, driver.quit() has been called
\* exactly once; a task inside handle_page always finds the session live, and
\* nothing navigates or queries the session after its release.
C19_SessionReleasedOnce ==
    /\ [](/\ phase = "gather" => (driver.alive /\ driver.quits = 0)
          /\ phase # "gather" => (~driver.alive /\ driver.quits = 1)
          /\ \A i \in Tasks : Active(i) => driver.alive)
    /\ [][~driver.alive => (driver' = driver /\ pc' = pc)]_vars

\* C19 witness: one task raised, another one ran to its end, and main has
\* been left through the exception with the session released.
C19_Witness ==
    /\ phase = "crashed"
    /\ driver.quits = 1
    /\ \E i, j \in Tasks : pc[i] = "raised" /\ pc[j] = "done" /\ i < j

====
